---- MODULE Spec2Model ----
(***************************************************************************)
(* Model of mentat-vscode/src/utils/commands.ts: the command handlers of   *)
(* the extension (includeResource, excludeResource, clearChat and the      *)
(* callbacks made by eraseChatHistory), the path resolution they share     *)
(* (getFilepath), and the two outbound channels they write to              *)
(* (server.sendStreamMessage and WebviewProvider.sendMessage).             *)
(*                                                                         *)
(* JavaScript values are records [t, v, path]: t is the type tag, v the    *)
(* payload of a primitive, path the own "path" property of an object       *)
(* (<<>> when the object has none, <<x>> when it has one with value x).    *)
(***************************************************************************)
EXTENDS Naturals, Sequences, FiniteSets

VARIABLES
    serverLog,   \* messages passed to server.sendStreamMessage, in order
    webviewLog,  \* per WebviewProvider: messages passed to its sendMessage
    callbacks,   \* the providers for which eraseChatHistory returned a callback
    trace        \* history: one record per handler invocation, in order

vars == <<serverLog, webviewLog, callbacks, trace>>

\* Bound on the number of handler invocations in one behaviour.
MaxCalls == 2

----------------------------------------------------------------------------
\* JavaScript values

Undefined == [t |-> "undefined", v |-> "", path |-> <<>>]

Null == [t |-> "null", v |-> "", path |-> <<>>]

Str(s) == [t |-> "string", v |-> s, path |-> <<>>]

Num(n) == [t |-> "number", v |-> n, path |-> <<>>]

\* An object without an own "path" property.
Obj == [t |-> "object", v |-> "", path |-> <<>>]

\* An object whose "path" property holds p.
ObjPath(p) == [t |-> "object", v |-> "", path |-> <<p>>]

\* Completion of a call: it returns a value or throws.
Return(x) == [kind |-> "return", value |-> x]

Throw == [kind |-> "throw", value |-> Undefined]

IsNullish(x) == x.t \in {"undefined", "null"}

\* Array.prototype.at(0): the first element, undefined on an empty array.
At0(args) == IF Len(args) = 0 THEN Undefined ELSE args[1]

\* x.path on a non-nullish x: the property when x is an object that has it,
\* undefined otherwise (primitives are boxed and have no "path").
GetPath(x) == IF x.t = "object" /\ x.path # <<>> THEN x.path[1] ELSE Undefined

\* x?.path : short-circuits to undefined on a nullish x, never throws.
OptionalPath(x) == IF IsNullish(x) THEN Return(Undefined) ELSE Return(GetPath(x))

\* a ?? b
NullishCoalesce(a, b) == IF IsNullish(a) THEN b ELSE a

----------------------------------------------------------------------------
\* The host: vscode.window.activeTextEditor

NoEditor == [present |-> FALSE, fileName |-> Undefined]

\* An editor whose document reports no fileName.
EditorNoName == [present |-> TRUE, fileName |-> Undefined]

Editor(f) == [present |-> TRUE, fileName |-> Str(f)]

\* activeTextEditor?.document?.fileName
EditorFileName(editor) == IF editor.present THEN editor.fileName ELSE Undefined

Editors == {NoEditor, EditorNoName, Editor("/e.py")}

\* The argument arrays the host invokes a command with.
ArgSeqs ==
    { <<>>,
      <<Null>>,
      <<Num("7")>>,
      <<Obj>>,
      <<ObjPath(Null)>>,
      <<ObjPath(Str(""))>>,
      <<ObjPath(Str("/a.py"))>>,
      <<Obj, ObjPath(Str("/b.py"))>> }

\* The argument arrays given to the handlers that never read them.
IgnoredArgSeqs == { <<>>, <<ObjPath(Str("/a.py"))>> }

\* The WebviewProvider instances eraseChatHistory may be given.
Notifiers == {"w1", "w2"}

NoNotifier == "none"

----------------------------------------------------------------------------
\* commands.ts

\* Falsy values of JavaScript among the modelled ones.
IsFalsy(x) == IsNullish(x) \/ (x.t = "string" /\ x.v = "")

\* Variant: "||" written for "??", so an empty path falls back to the editor.
getFilepath_LogicalOr(args, editor) ==
    LET p == OptionalPath(At0(args))
    IN  IF IsFalsy(p.value) THEN Return(EditorFileName(editor)) ELSE Return(p.value)

\* Variant: args.at(-1) written for args.at(0).
getFilepath_LastArg(args, editor) ==
    LET x == IF Len(args) = 0 THEN Undefined ELSE args[Len(args)]
    IN  Return(NullishCoalesce(OptionalPath(x).value, EditorFileName(editor)))

\* Variant: args.at(0).path without the optional chain, which throws a
\* TypeError on an absent or null first argument.
getFilepath_NoOptionalChain(args, editor) ==
    IF IsNullish(At0(args))
    THEN Throw
    ELSE Return(NullishCoalesce(GetPath(At0(args)), EditorFileName(editor)))

getFilepath(args, editor) ==
    LET p == OptionalPath(At0(args))
    IN  IF p.kind = "throw"
        THEN Throw
        ELSE Return(NullishCoalesce(p.value, EditorFileName(editor)))

\* The token the callback passes to WebviewProvider.sendMessage.
EraseIntent == "vscode:eraseChatHistory"

Message(target, intent) == [target |-> target, intent |-> intent]

\* server.sendStreamMessage(target, intent)
sendStreamMessage(target, intent) ==
    serverLog' = Append(serverLog, Message(target, intent))

\* webviewProvider.sendMessage(target, intent)
sendMessage(w, target, intent) ==
    webviewLog' = [webviewLog EXCEPT ![w] = Append(@, Message(target, intent))]

\* History of one invocation: what it was given, how getFilepath completed
\* for it, how it completed, and where each log stood when it began.
Invocation(op, args, editor, w, filePath, kind) ==
    [op |-> op, args |-> args, editor |-> editor, notifier |-> w,
     filePath |-> filePath, kind |-> kind,
     srvBefore |-> Len(serverLog),
     webBefore |-> [n \in Notifiers |-> Len(webviewLog[n])]]

\* Variant: "if (!filePath) return;", which also drops an empty path.
includeResource_Falsy ==
    \E args \in ArgSeqs, editor \in Editors :
        LET filePath == getFilepath(args, editor)
        IN  /\ Len(trace) < MaxCalls
            /\ trace' = Append(trace, Invocation("includeResource", args, editor,
                                   NoNotifier, filePath.value, filePath.kind))
            /\ IF filePath.kind = "throw" \/ IsFalsy(filePath.value)
               THEN UNCHANGED serverLog
               ELSE sendStreamMessage(filePath.value, "include")
            /\ UNCHANGED <<webviewLog, callbacks>>

\* Variant: remembers the last message and does not repeat it.
includeResource_Dedup ==
    \E args \in ArgSeqs, editor \in Editors :
        LET filePath == getFilepath(args, editor)
        IN  /\ Len(trace) < MaxCalls
            /\ trace' = Append(trace, Invocation("includeResource", args, editor,
                                   NoNotifier, filePath.value, filePath.kind))
            /\ IF \/ filePath.kind = "throw"
                  \/ filePath.value = Undefined
                  \/ /\ serverLog # <<>>
                     /\ serverLog[Len(serverLog)] = Message(filePath.value, "include")
               THEN UNCHANGED serverLog
               ELSE sendStreamMessage(filePath.value, "include")
            /\ UNCHANGED <<webviewLog, callbacks>>

includeResource ==
    \E args \in ArgSeqs, editor \in Editors :
        LET filePath == getFilepath(args, editor)
        IN  /\ Len(trace) < MaxCalls
            /\ trace' = Append(trace, Invocation("includeResource", args, editor,
                                   NoNotifier, filePath.value, filePath.kind))
            /\ IF filePath.kind = "throw" \/ filePath.value = Undefined
               THEN UNCHANGED serverLog
               ELSE sendStreamMessage(filePath.value, "include")
            /\ UNCHANGED <<webviewLog, callbacks>>

\* Variant: the body of includeResource copied without changing the intent.
excludeResource_IncludeIntent ==
    \E args \in ArgSeqs, editor \in Editors :
        LET filePath == getFilepath(args, editor)
        IN  /\ Len(trace) < MaxCalls
            /\ trace' = Append(trace, Invocation("excludeResource", args, editor,
                                   NoNotifier, filePath.value, filePath.kind))
            /\ IF filePath.kind = "throw" \/ filePath.value = Undefined
               THEN UNCHANGED serverLog
               ELSE sendStreamMessage(filePath.value, "include")
            /\ UNCHANGED <<webviewLog, callbacks>>

excludeResource ==
    \E args \in ArgSeqs, editor \in Editors :
        LET filePath == getFilepath(args, editor)
        IN  /\ Len(trace) < MaxCalls
            /\ trace' = Append(trace, Invocation("excludeResource", args, editor,
                                   NoNotifier, filePath.value, filePath.kind))
            /\ IF filePath.kind = "throw" \/ filePath.value = Undefined
               THEN UNCHANGED serverLog
               ELSE sendStreamMessage(filePath.value, "exclude")
            /\ UNCHANGED <<webviewLog, callbacks>>

\* Variant: clearChat with the early return of includeResource.
clearChat_Guarded ==
    \E args \in IgnoredArgSeqs, editor \in Editors :
        LET filePath == getFilepath(args, editor)
        IN  /\ Len(trace) < MaxCalls
            /\ trace' = Append(trace, Invocation("clearChat", args, editor,
                                   NoNotifier, Undefined, "return"))
            /\ IF filePath.value = Undefined
               THEN UNCHANGED serverLog
               ELSE sendStreamMessage(Null, "clear_conversation")
            /\ UNCHANGED <<webviewLog, callbacks>>

\* Variant: clearChat passing the resolved path as the target.
clearChat_Target ==
    \E args \in IgnoredArgSeqs, editor \in Editors :
        /\ Len(trace) < MaxCalls
        /\ trace' = Append(trace, Invocation("clearChat", args, editor,
                               NoNotifier, Undefined, "return"))
        /\ sendStreamMessage(NullishCoalesce(getFilepath(args, editor).value, Null),
                             "clear_conversation")
        /\ UNCHANGED <<webviewLog, callbacks>>

clearChat ==
    \E args \in IgnoredArgSeqs, editor \in Editors :
        /\ Len(trace) < MaxCalls
        /\ trace' = Append(trace, Invocation("clearChat", args, editor,
                               NoNotifier, Undefined, "return"))
        /\ sendStreamMessage(Null, "clear_conversation")
        /\ UNCHANGED <<webviewLog, callbacks>>

\* Variant: the factory sends the message itself when it makes the callback.
eraseChatHistory_Eager ==
    \E w \in Notifiers :
        /\ callbacks' = callbacks \cup {w}
        /\ Len(webviewLog[w]) < MaxCalls
        /\ sendMessage(w, Null, EraseIntent)
        /\ UNCHANGED <<serverLog, trace>>

\* eraseChatHistory(webviewProvider): returns the callback, bound to w.
eraseChatHistory ==
    \E w \in Notifiers :
        /\ callbacks' = callbacks \cup {w}
        /\ UNCHANGED <<serverLog, webviewLog, trace>>

\* Variant: the callback sends on the backend channel.
eraseCallback_ViaServer ==
    \E w \in callbacks, args \in IgnoredArgSeqs, editor \in Editors :
        /\ Len(trace) < MaxCalls
        /\ trace' = Append(trace, Invocation("eraseCallback", args, editor,
                               w, Undefined, "return"))
        /\ sendStreamMessage(Null, EraseIntent)
        /\ UNCHANGED <<webviewLog, callbacks>>

\* The callback eraseChatHistory(w) returned, invoked by the host.
eraseCallback ==
    \E w \in callbacks, args \in IgnoredArgSeqs, editor \in Editors :
        /\ Len(trace) < MaxCalls
        /\ trace' = Append(trace, Invocation("eraseCallback", args, editor,
                               w, Undefined, "return"))
        /\ sendMessage(w, Null, EraseIntent)
        /\ UNCHANGED <<serverLog, callbacks>>

Init ==
    /\ serverLog = <<>>
    /\ webviewLog = [n \in Notifiers |-> <<>>]
    /\ callbacks = {}
    /\ trace = <<>>

Next ==
    \/ includeResource
    \/ excludeResource
    \/ clearChat
    \/ eraseChatHistory
    \/ eraseCallback

Spec == Init /\ [][Next]_vars

----------------------------------------------------------------------------
\* Reading the history

PathOps == {"includeResource", "excludeResource"}

Calls == DOMAIN trace

\* The first argument has an own "path" property.
CarriesPath(args) == At0(args).t = "object" /\ At0(args).path # <<>>

PathField(args) == At0(args).path[1]

SrvEnd(i) == IF i < Len(trace) THEN trace[i + 1].srvBefore ELSE Len(serverLog)

\* The messages invocation i put on the backend channel.
ServerSent(i) == SubSeq(serverLog, trace[i].srvBefore + 1, SrvEnd(i))

WebEnd(i, w) ==
    IF i < Len(trace) THEN trace[i + 1].webBefore[w] ELSE Len(webviewLog[w])

\* The messages invocation i put on provider w.
WebSent(i, w) == SubSeq(webviewLog[w], trace[i].webBefore[w] + 1, WebEnd(i, w))

NoWebSent(i) == \A w \in Notifiers : WebSent(i, w) = <<>>

\* Every logged message was put there during some invocation.
AllAccounted ==
    IF trace = <<>>
    THEN serverLog = <<>> /\ \A w \in Notifiers : webviewLog[w] = <<>>
    ELSE trace[1].srvBefore = 0 /\ \A w \in Notifiers : trace[1].webBefore[w] = 0

Relabel(msgs, intent) == [k \in DOMAIN msgs |-> Message(msgs[k].target, intent)]

----------------------------------------------------------------------------
\* C1 (as stated): whenever the first argument carries a "path" field,
\* getFilepath returns exactly the value of that field, whatever the active
\* editor is.
C1_AsStated ==
    \A i \in Calls :
        (trace[i].op \in PathOps /\ CarriesPath(trace[i].args))
            => /\ trace[i].kind = "return"
               /\ trace[i].filePath = PathField(trace[i].args)

\* C1 (amended): whenever the first argument carries a "path" field whose
\* value is neither null nor undefined, getFilepath returns exactly that
\* value, whatever the active editor is.
C1_PathWins ==
    \A i \in Calls :
        (/\ trace[i].op \in PathOps
         /\ CarriesPath(trace[i].args)
         /\ ~IsNullish(PathField(trace[i].args)))
            => /\ trace[i].kind = "return"
               /\ trace[i].filePath = PathField(trace[i].args)

C1_Witness ==
    \E i \in Calls :
        /\ trace[i].op \in PathOps
        /\ trace[i].args = <<ObjPath(Str(""))>>
        /\ trace[i].editor = Editor("/e.py")
        /\ trace[i].filePath = Str("")

\* C2: with no usable first argument (no arguments, or a first argument
\* without a "path" field) getFilepath returns the active editor's file name
\* when there is an editor with one, and undefined otherwise.
C2_Fallback ==
    \A i \in Calls :
        (trace[i].op \in PathOps /\ ~CarriesPath(trace[i].args))
            => /\ trace[i].kind = "return"
               /\ trace[i].filePath =
                    IF trace[i].editor.present
                          /\ trace[i].editor.fileName.t = "string"
                    THEN trace[i].editor.fileName
                    ELSE Undefined

C2_Witness ==
    /\ \E i \in Calls :
        /\ trace[i].op \in PathOps
        /\ trace[i].args = <<Obj, ObjPath(Str("/b.py"))>>
        /\ trace[i].filePath = Str("/e.py")
    /\ \E j \in Calls :
        /\ trace[j].op \in PathOps
        /\ trace[j].args = <<>>
        /\ trace[j].editor = EditorNoName
        /\ trace[j].filePath = Undefined

\* C3: includeResource sends exactly one message (resolved path, "include")
\* on the backend channel when the path resolved, and otherwise sends
\* nothing on any channel and raises no error.
C3_IncludeIff ==
    \A i \in Calls :
        trace[i].op = "includeResource"
            => /\ trace[i].kind = "return"
               /\ NoWebSent(i)
               /\ IF trace[i].filePath # Undefined
                  THEN ServerSent(i) = <<Message(trace[i].filePath, "include")>>
                  ELSE ServerSent(i) = <<>>

C3_Witness ==
    /\ Len(trace) = 2
    /\ trace[1].op = "includeResource"
    /\ trace[1].filePath = Undefined
    /\ trace[2].op = "includeResource"
    /\ trace[2].filePath = Str("")
    /\ Len(serverLog) = 1

\* C4: excludeResource sends a message exactly when includeResource does for
\* the same arguments and active editor, on the same channel and with the
\* same target, with intent "exclude" in place of "include".
C4_ExcludeMirrorsInclude ==
    \A i, j \in Calls :
        (/\ trace[i].op = "includeResource"
         /\ trace[j].op = "excludeResource"
         /\ trace[i].args = trace[j].args
         /\ trace[i].editor = trace[j].editor)
            => /\ trace[j].kind = trace[i].kind
               /\ ServerSent(j) = Relabel(ServerSent(i), "exclude")
               /\ \A m \in DOMAIN ServerSent(i) : ServerSent(i)[m].intent = "include"
               /\ \A w \in Notifiers : WebSent(j, w) = WebSent(i, w)

C4_Witness ==
    /\ \E i, j \in Calls :
        /\ trace[i].op = "includeResource"
        /\ trace[j].op = "excludeResource"
        /\ trace[i].args = trace[j].args
        /\ trace[i].editor = trace[j].editor
        /\ ServerSent(i) # <<>>
        /\ ServerSent(j) # <<>>

\* C5: clearChat always sends exactly one message, (null,
\* "clear_conversation"), on the backend channel, whatever its arguments and
\* the active editor, and nothing to any webview provider.
C5_ClearAlways ==
    \A i \in Calls :
        trace[i].op = "clearChat"
            => /\ trace[i].kind = "return"
               /\ ServerSent(i) = <<Message(Null, "clear_conversation")>>
               /\ NoWebSent(i)

C5_Witness ==
    \E i \in Calls :
        /\ trace[i].op = "clearChat"
        /\ trace[i].args = <<ObjPath(Str("/a.py"))>>
        /\ trace[i].editor = Editor("/e.py")
        /\ ServerSent(i) = <<Message(Null, "clear_conversation")>>

\* C6: a callback returned by eraseChatHistory(w), invoked with any
\* arguments, sends the erase-chat-history intent with a null target to w,
\* and nothing on the backend channel.
C6_EraseViaNotifier ==
    \A i \in Calls :
        trace[i].op = "eraseCallback"
            => /\ trace[i].kind = "return"
               /\ trace[i].notifier \in Notifiers
               /\ WebSent(i, trace[i].notifier) = <<Message(Null, EraseIntent)>>
               /\ ServerSent(i) = <<>>

C6_Witness ==
    \E i \in Calls :
        /\ trace[i].op = "eraseCallback"
        /\ trace[i].args = <<ObjPath(Str("/a.py"))>>
        /\ Len(webviewLog[trace[i].notifier]) = 1
        /\ serverLog = <<>>

\* C7: getFilepath raises no error and has no side effect for any shape of
\* first argument: a handler that calls it completes normally, and sends
\* nothing at all when it stops right after the call (no path resolved).
C7_ResolveIsSilent ==
    \A i \in Calls :
        trace[i].op \in PathOps
            => /\ trace[i].kind = "return"
               /\ NoWebSent(i)
               /\ Len(ServerSent(i)) <= 1
               /\ trace[i].filePath = Undefined => ServerSent(i) = <<>>

C7_Witness ==
    /\ Len(trace) = 2
    /\ trace[1].op = "includeResource"
    /\ trace[1].args = <<Null>>
    /\ trace[1].editor = NoEditor
    /\ trace[2].op = "excludeResource"
    /\ trace[2].args = <<Num("7")>>
    /\ trace[2].editor = NoEditor
    /\ serverLog = <<>>

\* C8: every message on the backend channel has intent "include", "exclude"
\* or "clear_conversation", its target is null exactly when the intent is
\* "clear_conversation", and includeResource and excludeResource never send
\* to a webview provider.
C8_BackendMessages ==
    /\ \A k \in DOMAIN serverLog :
        /\ serverLog[k].intent \in {"include", "exclude", "clear_conversation"}
        /\ (serverLog[k].target = Null) <=> (serverLog[k].intent = "clear_conversation")
    /\ \A i \in Calls : trace[i].op \in PathOps => NoWebSent(i)

C8_Witness ==
    /\ Len(serverLog) = 2
    /\ serverLog[1].intent = "clear_conversation"
    /\ serverLog[2].intent = "exclude"
    /\ serverLog[1].target = Null
    /\ serverLog[2].target = Str("/e.py")

OwnIntent(op) ==
    CASE op = "includeResource" -> "include"
      [] op = "excludeResource" -> "exclude"
      [] op = "clearChat" -> "clear_conversation"
      [] OTHER -> EraseIntent

\* C9: the handlers keep no state across calls: each invocation sends at
\* most one message, messages stand on their channel in invocation order,
\* and what an invocation sends depends only on its arguments and the active
\* editor at that moment, never on the invocations before it.
C9_Stateless ==
    /\ AllAccounted
    /\ \A i \in Calls :
        /\ Len(ServerSent(i)) + Len(WebSent(i, "w1")) + Len(WebSent(i, "w2")) <= 1
        /\ \A k \in DOMAIN ServerSent(i) :
            /\ ServerSent(i)[k].intent = OwnIntent(trace[i].op)
            /\ trace[i].op \in PathOps => ServerSent(i)[k].target = trace[i].filePath
    /\ \A i, j \in Calls :
        (/\ i < j
         /\ trace[i].op = trace[j].op
         /\ trace[i].args = trace[j].args
         /\ trace[i].editor = trace[j].editor
         /\ trace[i].notifier = trace[j].notifier)
            => /\ ServerSent(i) = ServerSent(j)
               /\ \A w \in Notifiers : WebSent(i, w) = WebSent(j, w)

C9_Witness ==
    /\ Len(trace) = 2
    /\ trace[1].op = "includeResource"
    /\ trace[2].op = "includeResource"
    /\ trace[1].args = trace[2].args
    /\ trace[1].editor = trace[2].editor
    /\ Len(serverLog) = 2
    /\ serverLog[1] = serverLog[2]

\* C10: calling eraseChatHistory sends nothing by itself; a message goes to
\* a webview provider only when a returned callback is invoked, exactly one
\* per invocation, and always to the provider the callback was made for.
C10_FactoryIsSilent ==
    /\ AllAccounted
    /\ \A i \in Calls : \A w \in Notifiers :
        IF trace[i].op = "eraseCallback" /\ trace[i].notifier = w
        THEN Len(WebSent(i, w)) = 1
        ELSE WebSent(i, w) = <<>>
    /\ \A i \in Calls : trace[i].op = "eraseCallback" => ServerSent(i) = <<>>

C10_Witness ==
    /\ callbacks = Notifiers
    /\ Len(trace) = 2
    /\ trace[1].op = "eraseCallback"
    /\ trace[2].op = "eraseCallback"
    /\ trace[1].notifier = "w1"
    /\ trace[2].notifier = "w1"
    /\ Len(webviewLog["w1"]) = 2
    /\ webviewLog["w2"] = <<>>

====
